---------------------------- MODULE Spec2Model ----------------------------
(***************************************************************************)
(* A model of fix_daemon_logs.py: the one-pass rewrite of legacy           *)
(* d.logger.<Level>("message", key, value, ...) calls of one file into the *)
(* structured-field form.                                                  *)
(*                                                                         *)
(* Text is modelled as a sequence of one-character strings, so that the    *)
(* regular expression, the comma splitter, strip, split and join are       *)
(* computed character by character as the code computes them.              *)
(***************************************************************************)
EXTENDS Integers, Sequences, FiniteSets, TLC

VARIABLES
    pc,         \* position of the process (or of the function under check)
    disk,       \* content of the file at the hard-coded path
    content,    \* fix_file: the text read from the file
    new_lines,  \* fix_file: the list of output lines
    wopened,    \* the file has been opened for writing by the current run
    stdout,     \* messages printed so far
    exits,      \* exit status of every run that has ended, in order
    line,       \* one input line (specification SpecLine)
    out,        \* what the loop body appends to new_lines for that line
    args,       \* raw trailing argument text (specification SpecSplit)
    parts       \* the parts the splitter returns for args

vars == <<pc, disk, content, new_lines, wopened, stdout, exits, line, out, args, parts>>

-----------------------------------------------------------------------------
(* Bounds of the model. *)

MaxArgLen == 4
MaxParts == 3
MaxIndent == 2
MaxMsgLen == 2
MaxFileLines == 2
MaxRuns == 2

-----------------------------------------------------------------------------
(* Characters and the string primitives the code uses. *)

\* Python's None, where the code holds a character or None.
None == ""

\* The characters \s and str.strip() treat as white space (those that occur).
Whitespace == {" ", "\t", "\n"}

\* The two quote characters of line 23.
Quotes == {"\"", "'"}

RECURSIVE LStrip(_)
LStrip(s) ==
    IF s # <<>> /\ Head(s) \in Whitespace THEN LStrip(Tail(s)) ELSE s

RECURSIVE RStrip(_)
RStrip(s) ==
    IF s # <<>> /\ s[Len(s)] \in Whitespace
    THEN RStrip(SubSeq(s, 1, Len(s) - 1))
    ELSE s

\* str.strip()
Strip(s) == RStrip(LStrip(s))

RECURSIVE LStripChar(_, _)
LStripChar(s, c) ==
    IF s # <<>> /\ Head(s) = c THEN LStripChar(Tail(s), c) ELSE s

RECURSIVE RStripChar(_, _)
RStripChar(s, c) ==
    IF s # <<>> /\ s[Len(s)] = c
    THEN RStripChar(SubSeq(s, 1, Len(s) - 1), c)
    ELSE s

\* str.strip(c) for a one-character c
StripChar(s, c) == RStripChar(LStripChar(s, c), c)

\* s starts with p
StartsWith(s, p) == Len(s) >= Len(p) /\ SubSeq(s, 1, Len(p)) = p

\* s without its first n characters
Drop(s, n) == SubSeq(s, n + 1, Len(s))

\* sep.join(ss)
RECURSIVE Join(_, _)
Join(ss, sep) ==
    IF ss = <<>> THEN <<>>
    ELSE IF Len(ss) = 1 THEN ss[1]
    ELSE ss[1] \o sep \o Join(Tail(ss), sep)

\* s.split(c) for a one-character c: always at least one piece
RECURSIVE SplitOn(_, _)
SplitOn(s, c) ==
    IF \A i \in 1..Len(s) : s[i] # c THEN <<s>>
    ELSE LET k == CHOOSE i \in 1..Len(s) :
                      s[i] = c /\ \A j \in 1..(i - 1) : s[j] # c
         IN  <<SubSeq(s, 1, k - 1)>> \o SplitOn(Drop(s, k), c)

\* All strings over alphabet A of length lo..hi
Strings(A, lo, hi) == UNION {[1..k -> A] : k \in lo..hi}

-----------------------------------------------------------------------------
(* convert_log_call, lines 14-40: the top-level argument splitter. *)

\* lines 16-20
SplitInit ==
    [parts |-> <<>>, current |-> <<>>, paren_depth |-> 0,
     in_quotes |-> FALSE, quote_char |-> None]

\* line 23: a quote character read outside a literal opens one
OpensQuote(st, char) == char \in Quotes /\ ~st.in_quotes

\* A faulty variant of ClosesQuote: either quote character closes the literal.
ClosesQuoteAny(st, char) == char \in Quotes /\ st.in_quotes

\* line 26: the same quote character closes it
ClosesQuote(st, char) == char = st.quote_char /\ st.in_quotes

\* A faulty variant of IsSplitPoint: the depth is not looked at.
IsSplitPointAnyDepth(st, char) == char = ","

\* line 34 (reached only outside a literal): a comma at depth 0
IsSplitPoint(st, char) == char = "," /\ st.paren_depth = 0

\* lines 23-38: the loop body for one character
SplitStep(st, char) ==
    IF OpensQuote(st, char)
    THEN [st EXCEPT !.in_quotes = TRUE, !.quote_char = char,
                    !.current = Append(@, char)]
    ELSE IF ClosesQuote(st, char)
    THEN [st EXCEPT !.in_quotes = FALSE, !.quote_char = None,
                    !.current = Append(@, char)]
    ELSE IF ~st.in_quotes
    THEN IF char = "("
         THEN [st EXCEPT !.paren_depth = @ + 1, !.current = Append(@, char)]
         ELSE IF char = ")"
         THEN [st EXCEPT !.paren_depth = @ - 1, !.current = Append(@, char)]
         ELSE IF IsSplitPoint(st, char)
         THEN [st EXCEPT !.parts = Append(@, Strip(st.current)),
                         !.current = <<>>]
         ELSE [st EXCEPT !.current = Append(@, char)]
    ELSE [st EXCEPT !.current = Append(@, char)]

\* line 22: the state after the first n characters of a
RECURSIVE SplitScan(_, _)
SplitScan(a, n) ==
    IF n = 0 THEN SplitInit ELSE SplitStep(SplitScan(a, n - 1), a[n])

\* lines 16-40: the parts of a
SplitArgs(a) ==
    LET st == SplitScan(a, Len(a))
    IN  IF Strip(st.current) # <<>>
        THEN Append(st.parts, Strip(st.current))
        ELSE st.parts

-----------------------------------------------------------------------------
(* Inputs of the splitter. *)

ArgChars == {"a", ",", "(", ")", "\"", "'", " "}

ExampleCompute ==
    <<"\"", "r", "e", "s", "u", "l", "t", "\"", ",", " ",
      "c", "o", "m", "p", "u", "t", "e", "(", "a", ",", " ", "b", ",", " ", "c", ")">>

PartInputs ==
    { <<"k">>,
      <<"\"", "k", "\"">>,
      <<"'", "k", "'">>,
      <<"\"", "'", "k", "'", "\"">>,
      <<"'", "\"", "k", "\"", "'">>,
      <<"e", "r", "r">>,
      <<"f", "(", "a", ",", " ", "b", ")">>,
      <<"\"", "a", ",", " ", "b", "\"">>,
      <<"'", "a", ",", " ", "\"", "b", "'">>,
      <<>> }

CommaSpace == <<",", " ">>

JoinedArgs ==
    {Join(ps, CommaSpace) : ps \in Strings(PartInputs, 1, MaxParts)} \ {<<>>}

ArgInputs == Strings(ArgChars, 1, MaxArgLen) \cup JoinedArgs \cup {ExampleCompute}

-----------------------------------------------------------------------------
(* Specification SpecSplit: the splitter applied to one rawArgs. *)

Idle ==
    /\ disk = <<>>
    /\ content = <<>>
    /\ new_lines = <<>>
    /\ wopened = FALSE
    /\ stdout = <<>>
    /\ exits = <<>>

InitSplit ==
    /\ pc = "args"
    /\ args \in ArgInputs
    /\ parts = <<>>
    /\ line = <<>>
    /\ out = <<>>
    /\ Idle

Split ==
    /\ pc = "args"
    /\ parts' = SplitArgs(args)
    /\ pc' = "split"
    /\ UNCHANGED <<disk, content, new_lines, wopened, stdout, exits, line, out, args>>

NextSplit == Split

SpecSplit == InitSplit /\ [][NextSplit]_vars


-----------------------------------------------------------------------------
(* Claims about the splitter, checked under SpecSplit. *)

ExampleQuoted == <<"k", ",", " ", "'", "a", ",", " ", "\"", "b", "'">>

\* The state before and after the i-th character of args.
Before(i) == SplitScan(args, i - 1)
After(i) == SplitScan(args, i)

\* The i-th character ended a part.
SplitAt(i) == After(i).parts # Before(i).parts

\* The i-th character was appended to the current part as it is.
KeptAt(i) ==
    /\ After(i).parts = Before(i).parts
    /\ After(i).current = Append(Before(i).current, args[i])

(* C4: a comma read outside any quoted literal while the parenthesis depth *)
(* is greater than 0 is never a split point and is appended to the current *)
(* part verbatim; a part ends only at a comma read outside quotes at depth *)
(* exactly 0; so the rawArgs "result", compute(a, b, c) gives exactly one  *)
(* field, whose value is exactly compute(a, b, c).                         *)
C4_NestedCommaNotSplit ==
    pc = "split" =>
        /\ \A i \in 1..Len(args) :
            /\ (args[i] = "," /\ ~Before(i).in_quotes /\ Before(i).paren_depth > 0)
                   => KeptAt(i)
            /\ SplitAt(i)
                   => (args[i] = "," /\ ~Before(i).in_quotes /\ Before(i).paren_depth = 0)
        /\ args = ExampleCompute
               => parts = << <<"\"", "r", "e", "s", "u", "l", "t", "\"">>, <<"c", "o", "m", "p", "u", "t", "e", "(", "a", ",", " ", "b", ",", " ", "c", ")">> >>

C4_Witness ==
    /\ pc = "split"
    /\ args = ExampleCompute
    /\ \E i \in 1..Len(args) :
           args[i] = "," /\ ~Before(i).in_quotes /\ Before(i).paren_depth > 0

(* C5: a comma lying between a quote character read while not inside a     *)
(* literal and the next occurrence of that same quote character is never a *)
(* split point, at any parenthesis depth and also when the other quote     *)
(* character occurs in between; a quoted value with an embedded comma      *)
(* stays one part.                                                         *)
C5_QuotedCommaNotSplit ==
    pc = "split" =>
        /\ \A i \in 1..Len(args) :
               (args[i] \in Quotes /\ ~Before(i).in_quotes) =>
                   \A j \in (i + 1)..Len(args) :
                       (args[j] = "," /\ \A k \in (i + 1)..j : args[k] # args[i])
                           => KeptAt(j)
        /\ args = ExampleQuoted
               => parts = << <<"k">>, <<"'", "a", ",", " ", "\"", "b", "'">> >>

\* A literal opened at i holds the other quote character and then a comma.
C5_Witness ==
    /\ pc = "split"
    /\ \E i \in 1..Len(args) : \E k \in (i + 1)..Len(args) : \E j \in (k + 1)..Len(args) :
           /\ args[i] \in Quotes /\ ~Before(i).in_quotes
           /\ args[k] \in Quotes /\ args[k] # args[i]
           /\ args[j] = ","
           /\ \A n \in (i + 1)..j : args[n] # args[i]
           /\ Before(j).paren_depth # 0

-----------------------------------------------------------------------------
(* convert_log_call, lines 42-58: the field builder and the new call. *)

FieldOpen == <<"l", "o", "g", "g", "i", "n", "g", ".", "F", "i", "e", "l", "d", "{", "K", "e", "y", ":", " ", "\"">>
FieldMid == <<"\"", ",", " ", "V", "a", "l", "u", "e", ":", " ">>
FieldClose == <<"}">>

\* line 48: the f-string
RenderField(key, value) == FieldOpen \o key \o FieldMid \o value \o FieldClose

\* line 46: parts[i] stripped of double quotes, then of single quotes
FieldKey(part) == StripChar(StripChar(part, "\""), "'")

\* lines 44-51, from index i (1-based)
RECURSIVE FieldsFrom(_, _)
FieldsFrom(ps, i) ==
    IF i > Len(ps) THEN <<>>
    ELSE IF i + 1 <= Len(ps)
    THEN <<RenderField(FieldKey(ps[i]), ps[i + 1])>> \o FieldsFrom(ps, i + 2)
    ELSE FieldsFrom(ps, i + 1)

\* A faulty variant of BuildFields: an unpaired last part becomes a field
\* with an empty value.
RECURSIVE FieldsFromKeepLast(_, _)
FieldsFromKeepLast(ps, i) ==
    IF i > Len(ps) THEN <<>>
    ELSE IF i + 1 <= Len(ps)
    THEN <<RenderField(FieldKey(ps[i]), ps[i + 1])>> \o FieldsFromKeepLast(ps, i + 2)
    ELSE <<RenderField(FieldKey(ps[i]), <<>>)>>

BuildFieldsKeepLast(ps) == FieldsFromKeepLast(ps, 1)

\* lines 43-51
BuildFields(ps) == FieldsFrom(ps, 1)

Receiver == <<"d", ".", "l", "o", "g", "g", "e", "r", ".">>
Info == <<"I", "n", "f", "o">>
Debug == <<"D", "e", "b", "u", "g">>
Error == <<"E", "r", "r", "o", "r">>
Warn == <<"W", "a", "r", "n">>
CtxOpen == <<"(", "c", "t", "x", ",", " ", "\"">>
NewLine == <<"\n">>
Tab == <<"\t">>

\* A faulty variant of FieldsStr: the fields are not indented one level deeper.
FieldsStrNoTab(indent, fields) ==
    <<",", "\n">> \o indent \o Join(fields, <<",", "\n">> \o indent)
        \o <<",", "\n">> \o indent

\* line 55
FieldsStr(indent, fields) ==
    <<",", "\n">> \o indent \o Tab
        \o Join(fields, <<",", "\n">> \o indent \o Tab)
        \o <<",", "\n">> \o indent

\* A faulty variant of NewCall: ctx is put last, after the fields.
NewCallCtxLast(indent, level, message, fields_str) ==
    indent \o Receiver \o level \o <<"(", "\"">> \o message \o <<"\"">>
        \o fields_str \o <<",", " ", "c", "t", "x", ")">>

\* A faulty variant of NewCall: ctx is not inserted.
NewCallNoCtx(indent, level, message, fields_str) ==
    indent \o Receiver \o level \o <<"(", "\"">> \o message \o <<"\"">>
        \o fields_str \o <<")">>

\* lines 56 and 58: the f-strings
NewCall(indent, level, message, fields_str) ==
    indent \o Receiver \o level \o CtxOpen \o message \o <<"\"">>
        \o fields_str \o <<")">>

\* lines 5-58. m.args is group 4, empty when the group did not take part
\* (line 10 turns None into the empty string).
convert_log_call(m) ==
    LET fields == IF m.args # <<>> THEN BuildFields(SplitArgs(m.args)) ELSE <<>>
    IN  IF fields # <<>>
        THEN NewCall(m.indent, m.level, m.message, FieldsStr(m.indent, fields))
        ELSE NewCall(m.indent, m.level, m.message, <<>>)

-----------------------------------------------------------------------------
(* fix_file, lines 65 and 71: the pattern and re.match. The pattern is, in *)
(* order: start of line; group 1, any white space; the text d.logger. ;    *)
(* group 2, one of Info, Debug, Error, Warn; an opening parenthesis and a  *)
(* double quote; group 3, one or more characters other than the double     *)
(* quote; a double quote; optionally a comma, any white space and group 4, *)
(* one or more characters, as few as possible; a closing parenthesis; end  *)
(* of line. A line never holds a line break, so the dot matches every      *)
(* character and the end anchor is the end of the line.                    *)

\* group 2: no alternative is a prefix of another
Levels == {Info, Debug, Error, Warn}

NoMatch == [matched |-> FALSE]

\* group 1 is greedy and what follows must be d: the whole white-space prefix
IndentOf(l) == SubSeq(l, 1, Len(l) - Len(LStrip(l)))

\* group 3 is greedy and what follows must be the quote: up to the first quote
RECURSIVE UpToQuote(_)
UpToQuote(s) ==
    IF s # <<>> /\ Head(s) # "\"" THEN <<Head(s)>> \o UpToQuote(Tail(s)) ELSE <<>>

\* group 4: the white space before it is greedy, but leaves it one character
RECURSIVE LStripKeepOne(_)
LStripKeepOne(s) ==
    IF Len(s) > 1 /\ Head(s) \in Whitespace THEN LStripKeepOne(Tail(s)) ELSE s

\* re.match(pattern, l): the groups, or NoMatch
Match(l) ==
    LET indent == IndentOf(l)
        r1 == Drop(l, Len(indent))
    IN  IF ~StartsWith(r1, Receiver) THEN NoMatch
        ELSE
        LET r2 == Drop(r1, Len(Receiver))
        IN  IF ~\E L \in Levels : StartsWith(r2, L) THEN NoMatch
            ELSE
            LET level == CHOOSE L \in Levels : StartsWith(r2, L)
                r3 == Drop(r2, Len(level))
            IN  IF ~StartsWith(r3, <<"(", "\"">>) THEN NoMatch
                ELSE
                LET message == UpToQuote(Drop(r3, 2))
                    \* from the quote that ends the message, if there is one
                    tail == Drop(r3, 2 + Len(message))
                    m == [matched |-> TRUE, indent |-> indent, level |-> level,
                          message |-> message, args |-> <<>>]
                IN  IF message = <<>> \/ tail = <<>> THEN NoMatch
                    ELSE IF tail = <<"\"", ")">> THEN m
                    ELSE IF Len(tail) >= 4 /\ tail[2] = "," /\ tail[Len(tail)] = ")"
                    THEN [m EXCEPT !.args =
                              LStripKeepOne(SubSeq(tail, 3, Len(tail) - 1))]
                    ELSE NoMatch

\* A faulty variant of RewriteLine: a line that does not match is trimmed.
RewriteLineStripped(l) ==
    LET m == Match(l)
    IN  IF m.matched THEN convert_log_call(m) ELSE Strip(l)

\* lines 71-75: what the loop appends to new_lines for line l
RewriteLine(l) ==
    LET m == Match(l)
    IN  IF m.matched THEN convert_log_call(m) ELSE l

-----------------------------------------------------------------------------
(* Inputs of the line rewrite. *)

IndentChars == {" ", "\t"}
Indents == Strings(IndentChars, 0, MaxIndent)

MsgChars == {"m", " ", "\\", ",", ")"}
Messages == Strings(MsgChars, 1, MaxMsgLen)

CallHead(indent, level) == indent \o Receiver \o level \o <<"(", "\"">>

\* calls with a message and nothing else
PlainCalls ==
    {CallHead(i, L) \o msg \o <<"\"", ")">> :
        i \in Indents, L \in Levels, msg \in Messages}

ExampleErrLine == <<"\t", "d", ".", "l", "o", "g", "g", "e", "r", ".", "E", "r", "r", "o", "r", "(", "\"", "f", "a", "i", "l", "e", "d", "\"", ",", " ", "\"", "e", "r", "r", "\"", ",", " ", "e", "r", "r", ")">>
ExampleErrBlock ==
    <<"\t", "d", ".", "l", "o", "g", "g", "e", "r", ".", "E", "r", "r", "o", "r", "(", "c", "t", "x", ",", " ", "\"", "f", "a", "i", "l", "e", "d", "\"", ",", "\n", "\t", "\t", "l", "o", "g", "g", "i", "n", "g", ".", "F", "i", "e", "l", "d", "{", "K", "e", "y", ":", " ", "\"", "e", "r", "r", "\"", ",", " ", "V", "a", "l", "u", "e", ":", " ", "e", "r", "r", "}", ",", "\n", "\t", ")">>

ExampleArgs ==
    { <<"\"", "e", "r", "r", "\"", ",", " ", "e", "r", "r">>,
      ExampleCompute,
      ExampleQuoted,
      <<"\"", "k", "\"", ",", " ", "v", ",", " ", "e", "x", "t", "r", "a">>,
      <<"\"", "a", "\"", ",", " ", "1", ",", " ", "\"", "b", "\"", ",", " ", "f", "(", "x", ",", " ", "y", ")", ",", " ", "\"", "c", "\"", ",", " ", "'", "3", "'">> }

\* calls with realistic arguments, at every indent and level
ExampleCalls ==
    {CallHead(i, L) \o <<"f", "a", "i", "l", "e", "d", "\"", ",", " ">> \o a \o <<")">> :
        i \in Indents, L \in Levels, a \in ExampleArgs}

\* calls with every argument text of ArgInputs
ArgCalls ==
    {Tab \o Receiver \o Info \o <<"(", "\"", "m", "\"", ",">> \o sep \o a \o <<")">> :
        sep \in {<<>>, <<" ">>}, a \in ArgInputs}

EscChars == {"m", ",", " "}

\* calls whose message literal holds a backslash-escaped double quote
EscapedCalls ==
    {Receiver \o Info \o <<"(", "\"">> \o a \o <<"\\", "\"">> \o b \o <<"\"">> \o t :
        a \in Strings(EscChars, 0, MaxMsgLen),
        b \in Strings(EscChars, 0, MaxMsgLen),
        t \in { <<")">>, <<",", " ", "\"", "k", "\"", ",", " ", "v", ")">> }}

\* lines that are not legacy calls
NearMisses ==
    { <<>>,
      <<"x", " ", ":", "=", " ", "1">>,
      <<" ", " ", "/", "/", " ", "d", ".", "l", "o", "g", "g", "e", "r", ".", "I", "n", "f", "o", "(", "\"", "m", "\"", ")">>,
      <<"s", ".", "l", "o", "g", "g", "e", "r", ".", "I", "n", "f", "o", "(", "\"", "m", "\"", ")">>,
      <<"d", ".", "l", "o", "g", ".", "I", "n", "f", "o", "(", "\"", "m", "\"", ")">>,
      <<"d", ".", "l", "o", "g", "g", "e", "r", ".", "T", "r", "a", "c", "e", "(", "\"", "m", "\"", ")">>,
      <<"d", ".", "l", "o", "g", "g", "e", "r", ".", "I", "n", "f", "o", "(", "\"", "\"", ")">>,
      <<"d", ".", "l", "o", "g", "g", "e", "r", ".", "I", "n", "f", "o", "(", "\"", "m", "\"", " ", "+", " ", "x", ")">>,
      <<"d", ".", "l", "o", "g", "g", "e", "r", ".", "I", "n", "f", "o", "(", "m", "s", "g", ",", " ", "\"", "k", "\"", ",", " ", "v", ")">>,
      <<"d", ".", "l", "o", "g", "g", "e", "r", ".", "I", "n", "f", "o", "(", "\"", "m", "\"", ")", " ">>,
      <<"d", ".", "l", "o", "g", "g", "e", "r", ".", "I", "n", "f", "o", "(", "\"", "m", "\"", ",", ")">>,
      <<"d", ".", "l", "o", "g", "g", "e", "r", ".", "I", "n", "f", "o", "(", "\"", "m", "\"", ",", " ", "\"", "k", "\"", ",">>,
      <<"d", ".", "l", "o", "g", "g", "e", "r", ".", "I", "n", "f", "o", "(", "c", "t", "x", ",", " ", "\"", "m", "\"", ")">>,
      <<"\t", "l", "o", "g", "g", "i", "n", "g", ".", "F", "i", "e", "l", "d", "{", "K", "e", "y", ":", " ", "\"", "k", "\"", ",", " ", "V", "a", "l", "u", "e", ":", " ", "v", "}", ",">>,
      <<"\t", ")">> }

LineInputs ==
    PlainCalls \cup ExampleCalls \cup ArgCalls \cup EscapedCalls \cup NearMisses
        \cup {ExampleErrLine}

-----------------------------------------------------------------------------
(* Specification SpecLine: the loop body of fix_file applied to one line. *)

InitLine ==
    /\ pc = "line"
    /\ line \in LineInputs
    /\ out = <<>>
    /\ args = <<>>
    /\ parts = <<>>
    /\ Idle

Rewrite ==
    /\ pc = "line"
    /\ out' = RewriteLine(line)
    /\ pc' = "rewritten"
    /\ UNCHANGED <<disk, content, new_lines, wopened, stdout, exits, line, args, parts>>

NextLine == Rewrite

SpecLine == InitLine /\ [][NextLine]_vars

-----------------------------------------------------------------------------
(* Claims about the rewrite of one line, checked under SpecLine. *)

\* The groups of the match of the line, the parts of its arguments, and the
\* lines of the text that replaces it.
TheMatch == Match(line)
TheParts == IF TheMatch.args # <<>> THEN SplitArgs(TheMatch.args) ELSE <<>>
OutLines == SplitOn(out, "\n")

\* The zero-field form of a call.
ZeroFieldForm(indent, level, message) ==
    indent \o <<"d", ".", "l", "o", "g", "g", "e", "r", ".">> \o level \o <<"(", "c", "t", "x", ",", " ", "\"">> \o message \o <<"\"", ")">>

\* The opening line of a call with fields.
OpeningLine(indent, level, message) ==
    indent \o <<"d", ".", "l", "o", "g", "g", "e", "r", ".">> \o level \o <<"(", "c", "t", "x", ",", " ", "\"">> \o message \o <<"\"", ",">>

HasNoQuote(s) == \A i \in 1..Len(s) : s[i] # "\""

EndsWith(s, p) == Len(s) >= Len(p) /\ SubSeq(s, Len(s) - Len(p) + 1, Len(s)) = p

\* The line is <indent>d.logger.<L>("<message>") with a non-empty message
\* that holds no double quote.
IsPlainCall(L) ==
    LET head == IndentOf(line) \o <<"d", ".", "l", "o", "g", "g", "e", "r", ".">> \o L \o <<"(", "\"">>
    IN  /\ StartsWith(line, head)
        /\ Len(line) >= Len(head) + 3
        /\ EndsWith(line, <<"\"", ")">>)
        /\ HasNoQuote(SubSeq(line, Len(head) + 1, Len(line) - 2))

PlainMessage(L) ==
    SubSeq(line, Len(IndentOf(line)) + 9 + Len(L) + 2 + 1, Len(line) - 2)

(* C2: for every indent, level and non-empty message without a double      *)
(* quote, the line <indent>d.logger.<Level>("<message>") is rewritten to   *)
(* exactly the one line <indent>d.logger.<Level>(ctx, "<message>").        *)
C2_NoArgsCall ==
    pc = "rewritten" =>
        \A L \in {<<"I", "n", "f", "o">>, <<"D", "e", "b", "u", "g">>, <<"E", "r", "r", "o", "r">>, <<"W", "a", "r", "n">>} :
            IsPlainCall(L) => out = ZeroFieldForm(IndentOf(line), L, PlainMessage(L))

C2_Witness ==
    /\ pc = "rewritten"
    /\ IsPlainCall(<<"W", "a", "r", "n">>)
    /\ Len(IndentOf(line)) = 2
    /\ PlainMessage(<<"W", "a", "r", "n">>) = <<"m", ",">>

(* C3: a matched line whose arguments yield k >= 1 fields is replaced by   *)
(* exactly k+2 lines: the opening line ending in a comma, one line per     *)
(* field in order, each the indent, one tab, the field and a comma, and    *)
(* the closing line <indent>). The call ("failed", "err", err) gives the   *)
(* 3-line block with the one field line for err.                           *)
C3_FieldBlock ==
    pc = "rewritten" =>
        /\ TheMatch.matched =>
               LET fields == BuildFields(TheParts)
                   k == Len(fields)
                   m == TheMatch
               IN  k >= 1 =>
                       /\ Len(OutLines) = k + 2
                       /\ OutLines[1] = OpeningLine(m.indent, m.level, m.message)
                       /\ \A j \in 1..k :
                              OutLines[j + 1] = m.indent \o <<"\t">> \o fields[j] \o <<",">>
                       /\ OutLines[k + 2] = m.indent \o <<")">>
        /\ line = ExampleErrLine => out = ExampleErrBlock

C3_Witness ==
    /\ pc = "rewritten"
    /\ TheMatch.matched
    /\ Len(BuildFields(TheParts)) = 3
    /\ TheMatch.indent = <<" ", "\t">>

(* C7: the n parts are paired (1st, 2nd), (3rd, 4th), ... into exactly     *)
(* floor(n/2) fields in that order; with n odd the last part is dropped    *)
(* and appears in no line of the output, the earlier pairs are all         *)
(* emitted; with n = 1 the output is the zero-field form.                  *)
C7_PairsAndOddDrop ==
    (pc = "rewritten" /\ TheMatch.matched /\ TheMatch.args # <<>>) =>
            LET m == TheMatch
                n == Len(TheParts)
                k == n \div 2
            IN  /\ k = 0 => out = ZeroFieldForm(m.indent, m.level, m.message)
                /\ k >= 1 =>
                       /\ Len(OutLines) = k + 2
                       /\ OutLines[1] = OpeningLine(m.indent, m.level, m.message)
                       /\ \A j \in 1..k :
                              OutLines[j + 1] =
                                  m.indent \o <<"\t">> \o <<"l", "o", "g", "g", "i", "n", "g", ".", "F", "i", "e", "l", "d", "{", "K", "e", "y", ":", " ", "\"">>
                                      \o FieldKey(TheParts[2 * j - 1])
                                      \o <<"\"", ",", " ", "V", "a", "l", "u", "e", ":", " ">> \o TheParts[2 * j] \o <<"}", ",">>
                       /\ OutLines[k + 2] = m.indent \o <<")">>

C7_Witness ==
    /\ pc = "rewritten"
    /\ TheMatch.matched
    /\ Len(TheParts) = 3
    /\ TheParts[3] = <<"e", "x", "t", "r", "a">>

\* s without the quote characters at its two ends
RECURSIVE StripQuotes(_)
StripQuotes(s) ==
    IF s # <<>> /\ Head(s) \in Quotes THEN StripQuotes(Tail(s))
    ELSE IF s # <<>> /\ s[Len(s)] \in Quotes THEN StripQuotes(SubSeq(s, 1, Len(s) - 1))
    ELSE s

(* C8: in every field line the text between the quotes of Key is the key   *)
(* part with the single and double quote characters stripped from its two  *)
(* ends, so it neither starts nor ends with a quote character, whatever    *)
(* the key part; the value is the value part exactly as written.           *)
C8_KeyStrippedValueKept ==
    (pc = "rewritten" /\ TheMatch.matched /\ Len(TheParts) >= 2) =>
            \A j \in 1..(Len(TheParts) \div 2) :
                LET fl == OutLines[j + 1]
                    pre == TheMatch.indent \o <<"\t", "l", "o", "g", "g", "i", "n", "g", ".", "F", "i", "e", "l", "d", "{", "K", "e", "y", ":", " ", "\"">>
                    suf == <<"\"", ",", " ", "V", "a", "l", "u", "e", ":", " ">> \o TheParts[2 * j] \o <<"}", ",">>
                    key == SubSeq(fl, Len(pre) + 1, Len(fl) - Len(suf))
                IN  /\ StartsWith(fl, pre)
                    /\ EndsWith(fl, suf)
                    /\ key = StripQuotes(TheParts[2 * j - 1])
                    /\ key # <<>> => key[1] \notin Quotes /\ key[Len(key)] \notin Quotes

\* Reading s from position i as the inside of a string literal in which a
\* backslash escapes the next character: the position of the closing quote
\* (0 if there is none), and whether an escaped double quote comes before it.
RECURSIVE LiteralEnd(_, _)
LiteralEnd(s, i) ==
    IF i > Len(s) THEN 0
    ELSE IF s[i] = "\\" THEN LiteralEnd(s, i + 2)
    ELSE IF s[i] = "\"" THEN i
    ELSE LiteralEnd(s, i + 1)

RECURSIVE HasEscapedQuote(_, _)
HasEscapedQuote(s, i) ==
    IF i > Len(s) THEN FALSE
    ELSE IF s[i] = "\\"
    THEN (i + 1 <= Len(s) /\ s[i + 1] = "\"") \/ HasEscapedQuote(s, i + 2)
    ELSE IF s[i] = "\"" THEN FALSE
    ELSE HasEscapedQuote(s, i + 1)

\* The line is a call d.logger.<Level>(...) whose first argument is a
\* message literal that holds a backslash-escaped double quote.
EscapedMessageCall ==
    \E L \in {<<"I", "n", "f", "o">>, <<"D", "e", "b", "u", "g">>, <<"E", "r", "r", "o", "r">>, <<"W", "a", "r", "n">>} :
        LET head == IndentOf(line) \o <<"d", ".", "l", "o", "g", "g", "e", "r", ".">> \o L \o <<"(", "\"">>
        IN  /\ StartsWith(line, head)
            /\ LiteralEnd(line, Len(head) + 1) > 0
            /\ HasEscapedQuote(line, Len(head) + 1)
            /\ line[Len(line)] = ")"
            /\ LiteralEnd(line, Len(head) + 1) < Len(line)

(* C10: every line d.logger.<Level>(...) whose message literal holds a     *)
(* backslash-escaped double quote does not match the pattern and is passed *)
(* through unchanged, whatever follows the escaped quote.                  *)
C10_EscapedQuotePassesThrough ==
    (pc = "rewritten" /\ EscapedMessageCall) =>
        /\ ~TheMatch.matched
        /\ out = line

-----------------------------------------------------------------------------
(* fix_file and the main block, lines 60-82. *)

\* lines 68-75
FixLines(lines) == [i \in 1..Len(lines) |-> RewriteLine(lines[i])]

\* line 82
FixedMessage == "Fixed daemon.go logger calls"

FileLines ==
    { <<>>,
      <<"x", " ", ":", "=", " ", "1">>,
      <<"d", ".", "l", "o", "g", "g", "e", "r", ".", "I", "n", "f", "o", "(", "\"", "m", "\"", ")">>,
      ExampleErrLine,
      <<"d", ".", "l", "o", "g", "g", "e", "r", ".", "W", "a", "r", "n", "(", "\"", "m", "\"", ",", " ", "\"", "a", "\"", ",", " ", "f", "(", "x", ",", " ", "y", ")", ",", " ", "\"", "b", "\"", ")">>,
      <<" ", "s", ".", "l", "o", "g", "g", "e", "r", ".", "I", "n", "f", "o", "(", "\"", "m", "\"", ")", " ">>,
      <<"d", ".", "l", "o", "g", "g", "e", "r", ".", "I", "n", "f", "o", "(", "c", "t", "x", ",", " ", "\"", "m", "\"", ")">>,
      <<"\t", "l", "o", "g", "g", "i", "n", "g", ".", "F", "i", "e", "l", "d", "{", "K", "e", "y", ":", " ", "\"", "k", "\"", ",", " ", "V", "a", "l", "u", "e", ":", " ", "v", "}", ",">> }

\* the files of one to MaxFileLines lines of FileLines, and the one-line files
\* of the example calls and of the lines that are not legacy calls
Files ==
    {Join(ls, NewLine) : ls \in Strings(FileLines, 1, MaxFileLines)}
        \cup ExampleCalls \cup NearMisses

Init ==
    /\ pc = "start"
    /\ disk \in Files
    /\ content = <<>>
    /\ new_lines = <<>>
    /\ wopened = FALSE
    /\ stdout = <<>>
    /\ exits = <<>>
    /\ line = <<>>
    /\ out = <<>>
    /\ args = <<>>
    /\ parts = <<>>

\* An unhandled exception ends the process with a non-zero status.
Crash ==
    /\ pc' = "crashed"
    /\ exits' = Append(exits, 1)

\* line 61: open(filepath, 'r')
OpenRead ==
    /\ pc = "start"
    /\ pc' = "opened_r"
    /\ UNCHANGED <<disk, content, new_lines, wopened, stdout, exits, line, out, args, parts>>

\* line 61 raises (no such file, permission denied)
OpenReadFail ==
    /\ pc = "start"
    /\ Crash
    /\ UNCHANGED <<disk, content, new_lines, wopened, stdout, line, out, args, parts>>

\* line 62: f.read(), the whole file
ReadAll ==
    /\ pc = "opened_r"
    /\ content' = disk
    /\ pc' = "read"
    /\ UNCHANGED <<disk, new_lines, wopened, stdout, exits, line, out, args, parts>>

\* line 62 raises
ReadFail ==
    /\ pc = "opened_r"
    /\ Crash
    /\ UNCHANGED <<disk, content, new_lines, wopened, stdout, line, out, args, parts>>

\* lines 65-75: split into lines, rewrite each
ProcessLines ==
    /\ pc = "read"
    /\ new_lines' = FixLines(SplitOn(content, "\n"))
    /\ pc' = "processed"
    /\ UNCHANGED <<disk, content, wopened, stdout, exits, line, out, args, parts>>

\* line 77: open(filepath, 'w') truncates the file
OpenWrite ==
    /\ pc = "processed"
    /\ disk' = <<>>
    /\ wopened' = TRUE
    /\ pc' = "opened_w"
    /\ UNCHANGED <<content, new_lines, stdout, exits, line, out, args, parts>>

\* line 77 raises
OpenWriteFail ==
    /\ pc = "processed"
    /\ Crash
    /\ UNCHANGED <<disk, content, new_lines, wopened, stdout, line, out, args, parts>>

\* line 78 and the end of the with block: the joined lines are written
WriteAll ==
    /\ pc = "opened_w"
    /\ disk' = Join(new_lines, NewLine)
    /\ pc' = "written"
    /\ UNCHANGED <<content, new_lines, wopened, stdout, exits, line, out, args, parts>>

\* line 78 (or the close) raises: some prefix of the text has reached the file
WriteFail ==
    /\ pc = "opened_w"
    /\ \E n \in 0..Len(Join(new_lines, NewLine)) :
           disk' = SubSeq(Join(new_lines, NewLine), 1, n)
    /\ Crash
    /\ UNCHANGED <<content, new_lines, wopened, stdout, line, out, args, parts>>

\* A faulty variant of PrintFixed: the message is printed before the file is
\* written.
PrintEarly ==
    /\ pc = "processed"
    /\ stdout' = Append(stdout, FixedMessage)
    /\ exits' = Append(exits, 0)
    /\ pc' = "exited"
    /\ UNCHANGED <<disk, content, new_lines, wopened, line, out, args, parts>>

\* line 82, then the process ends with status 0
PrintFixed ==
    /\ pc = "written"
    /\ stdout' = Append(stdout, FixedMessage)
    /\ exits' = Append(exits, 0)
    /\ pc' = "exited"
    /\ UNCHANGED <<disk, content, new_lines, wopened, line, out, args, parts>>

\* The tool is run again on the file it has rewritten: a new process.
RunAgain ==
    /\ pc = "exited"
    /\ Len(exits) < MaxRuns
    /\ pc' = "start"
    /\ content' = <<>>
    /\ new_lines' = <<>>
    /\ wopened' = FALSE
    /\ UNCHANGED <<disk, stdout, exits, line, out, args, parts>>

Next ==
    \/ OpenRead
    \/ OpenReadFail
    \/ ReadAll
    \/ ReadFail
    \/ ProcessLines
    \/ OpenWrite
    \/ OpenWriteFail
    \/ WriteAll
    \/ WriteFail
    \/ PrintFixed
    \/ RunAgain

Spec == Init /\ [][Next]_vars

-----------------------------------------------------------------------------
(* Claims about fix_file, checked under Spec. *)

\* The lines of the text that was read.
InLines == SplitOn(content, "\n")

Processed == pc \in {"processed", "opened_w", "written", "exited"}

Unmatched(l) == ~Match(l).matched

(* C1: every input line that does not match the legacy call pattern is in  *)
(* the output unchanged, at its place among the other lines and the        *)
(* rewritten blocks; a file with no matching line is written back as it    *)
(* was read.                                                               *)
C1_UnmatchedLinesKept ==
    /\ Processed =>
           /\ Len(new_lines) = Len(InLines)
           /\ \A i \in 1..Len(InLines) :
                  Unmatched(InLines[i]) => new_lines[i] = InLines[i]
    /\ pc \in {"written", "exited"} =>
           /\ disk = Join(new_lines, <<"\n">>)
           /\ (\A i \in 1..Len(InLines) : Unmatched(InLines[i])) => disk = content

\* A file whose first line is rewritten into a block and whose second line,
\* with white space at its ends, is not a legacy call.
C1_Witness ==
    /\ pc = "exited"
    /\ Len(InLines) = 2
    /\ InLines[1] = ExampleErrLine
    /\ InLines[2] = <<" ", "s", ".", "l", "o", "g", "g", "e", "r", ".", "I", "n", "f", "o", "(", "\"", "m", "\"", ")", " ">>
    /\ disk # content

(* C6: no line of the block that replaces a matched line matches the       *)
(* legacy call pattern, and a second run over an already converted file    *)
(* writes back exactly the content it read.                                *)
C6_SecondRunChangesNothing ==
    /\ Processed =>
           \A i \in 1..Len(InLines) :
               ~Unmatched(InLines[i]) =>
                   \A j \in 1..Len(SplitOn(new_lines[i], "\n")) :
                       Unmatched(SplitOn(new_lines[i], "\n")[j])
    /\ (/\ pc \in {"written", "exited"}
        /\ Len(exits) >= (IF pc = "exited" THEN 2 ELSE 1)
        /\ \A r \in 1..Len(exits) : exits[r] = 0)
           => disk = content

\* The second run has ended on a file in which the first run rewrote a call
\* with one field and a call without fields.
C6_Witness ==
    /\ pc = "exited"
    /\ exits = <<0, 0>>
    /\ InLines = << <<"\t", "d", ".", "l", "o", "g", "g", "e", "r", ".", "E", "r", "r", "o", "r", "(", "c", "t", "x", ",", " ", "\"", "f", "a", "i", "l", "e", "d", "\"", ",">>,
                    <<"\t", "\t", "l", "o", "g", "g", "i", "n", "g", ".", "F", "i", "e", "l", "d", "{", "K", "e", "y", ":", " ", "\"", "e", "r", "r", "\"", ",", " ", "V", "a", "l", "u", "e", ":", " ", "e", "r", "r", "}", ",">>,
                    <<"\t", ")">>,
                    <<"d", ".", "l", "o", "g", "g", "e", "r", ".", "I", "n", "f", "o", "(", "c", "t", "x", ",", " ", "\"", "m", "\"", ")">> >>

(* C9: fix_file reads the whole file, processes every line, opens the file *)
(* for writing, writes, and only then is the confirmation printed. If the  *)
(* open or the read fails the file is never opened for writing, its        *)
(* content is untouched and nothing is printed; if the write fails nothing *)
(* is printed.                                                             *)
C9_StepOrder ==
    [][ /\ (wopened' /\ ~wopened) =>
               /\ content = disk
               /\ new_lines = FixLines(SplitOn(content, "\n"))
               /\ disk' = <<>>
        /\ disk' # disk => (wopened' /\ pc \in {"processed", "opened_w"})
        /\ stdout' # stdout =>
               /\ wopened
               /\ disk = Join(new_lines, <<"\n">>)
               /\ stdout' = Append(stdout, "Fixed daemon.go logger calls")
               /\ exits' = Append(exits, 0)
        /\ (pc \in {"start", "opened_r"} /\ exits' = Append(exits, 1)) =>
               /\ disk' = disk
               /\ ~wopened'
        /\ exits' = Append(exits, 1) => stdout' = stdout
        /\ (exits # <<>> /\ exits[Len(exits)] = 1) => UNCHANGED vars
      ]_vars

\* The write has failed part of the way through the text.
C9_Witness ==
    /\ pc = "crashed"
    /\ wopened
    /\ disk # <<>>
    /\ disk # Join(new_lines, <<"\n">>)
    /\ stdout = <<>>

=============================================================================
